---- MODULE Spec2Model ----
(***************************************************************************)
(* A model of the collaborative code pad:                                  *)
(*   - app_backend/models.py   normalize_language, RoomState               *)
(*   - app_backend/store.py    RoomsStore (a lock, a dict of RoomState)    *)
(*   - app_backend/main.py     the HTTP endpoints and the room WebSocket   *)
(*   - app_frontend/main.py    the Streamlit script of a client session    *)
(*   - app_frontend/collab_state.py   the RoomsStore of the frontend       *)
(*                                                                         *)
(* Spec     : RoomsStore shared by concurrent threads.  A Python object is *)
(*            a reference into `heap`; the dict `rooms` and the locals of  *)
(*            every thread hold references, so aliasing is visible.        *)
(* AppSpec  : the FastAPI application.  Every endpoint is `async def`, so  *)
(*            a handler runs on the event loop without interruption        *)
(*            between two awaits.                                          *)
(* AliasSpec: Spec with callers that write to the objects RoomsStore       *)
(*            returned to them.                                            *)
(* NormSpec : normalize_language on its own, applied to one input string   *)
(*            and then to its own result, and the frontend's               *)
(*            normalize_language applied to the same input.                *)
(* SessionSpec : one client session (sync_room_into_session, the editor)   *)
(*            against a backend that other clients write to.               *)
(* FrontStoreSpec : the calls of the frontend RoomsStore, each atomic      *)
(*            under its lock.                                              *)
(***************************************************************************)
EXTENDS Integers, Sequences, FiniteSets, TLC

(* ------------------------------ bounds -------------------------------- *)

\* total number of RoomsStore calls in a behaviour of Spec
MaxCalls == 3
\* the largest value time.time() reaches
MaxClock == 2
\* number of object references (chosen so that allocation never fails)
MaxRefs == 8
\* total number of messages and requests the application handles in AppSpec
MaxMsgs == 3
\* the largest value time.time() returns to a client session or to the
\* frontend store
MaxWall == 3

(* --------------------------- Python values ---------------------------- *)

\* Optional[T]: None is the empty tuple, a present value v is <<v>>.
None == <<>>
Some(v) == <<v>>

\* `x or ""` for an Optional[str] (store.py:56)
OrEmpty(o) == IF o = None THEN "" ELSE o[1]

Threads == {"t1", "t2"}
NoThread == "nobody"
Ids == {"r1", "r2"}
Refs == 1..MaxRefs
NoRef == 0

\* the code argument of update_room / upsert_room: Optional[str]
CodeArgs == {None, Some("a"), Some("b")}
\* the code argument of create_room: str
CodeStrs == {"", "a"}
\* a language argument: Optional[str], the string as a tuple of characters
LangArgs == {None, Some(<<"J", "S">>)}

(* ------------------------- models.py ---------------------------------- *)

UpperAlpha == <<"A","B","C","D","E","F","G","H","I","J","K","L","M",
                "N","O","P","Q","R","S","T","U","V","W","X","Y","Z">>
LowerAlpha == <<"a","b","c","d","e","f","g","h","i","j","k","l","m",
                "n","o","p","q","r","s","t","u","v","w","x","y","z">>

\* str.lower() on one character
LowerChar(c) ==
    IF \E i \in 1..Len(UpperAlpha) : UpperAlpha[i] = c
    THEN LowerAlpha[CHOOSE i \in 1..Len(UpperAlpha) : UpperAlpha[i] = c]
    ELSE c

RECURSIVE Lower(_)
\* str.lower(): a tuple of characters to the lower-case string
Lower(s) == IF s = <<>> THEN "" ELSE LowerChar(Head(s)) \o Lower(Tail(s))

\* models.py:8, in declaration order
Language == {"python", "javascript", "typescript", "sql", "java", "c", "cpp"}

\* models.py:11-19
SUPPORTED_LANGUAGES == [k \in Language |-> k]

\* models.py:32-36
mapping == [k \in {"c++", "js", "ts"} |->
              CASE k = "c++" -> "cpp"
                [] k = "js" -> "javascript"
                [] k = "ts" -> "typescript"]

\* a string literal of models.py as the tuple of its characters
Chars ==
    [k \in Language \cup DOMAIN mapping \cup {"Python"} |->
       CASE k = "python" -> <<"p","y","t","h","o","n">>
         [] k = "javascript" -> <<"j","a","v","a","s","c","r","i","p","t">>
         [] k = "typescript" -> <<"t","y","p","e","s","c","r","i","p","t">>
         [] k = "sql" -> <<"s","q","l">>
         [] k = "java" -> <<"j","a","v","a">>
         [] k = "c" -> <<"c">>
         [] k = "cpp" -> <<"c","p","p">>
         [] k = "c++" -> <<"c","+","+">>
         [] k = "js" -> <<"j","s">>
         [] k = "ts" -> <<"t","s">>
         [] k = "Python" -> <<"P","y","t","h","o","n">>]

\* mutant: the input is compared as it is spelt
normalize_language_case_sensitive(lang) ==
    IF lang = None \/ lang[1] = <<>> THEN "python"
    ELSE IF \E k \in Language : Chars[k] = lang[1]
    THEN CHOOSE k \in Language : Chars[k] = lang[1]
    ELSE IF \E k \in DOMAIN mapping : Chars[k] = lang[1]
    THEN mapping[CHOOSE k \in DOMAIN mapping : Chars[k] = lang[1]]
    ELSE "python"

\* mutant: the fallback is the display name
normalize_language_display_default(lang) ==
    IF lang = None \/ lang[1] = <<>> THEN "Python"
    ELSE LET lower == Lower(lang[1]) IN
         IF lower \in DOMAIN SUPPORTED_LANGUAGES THEN SUPPORTED_LANGUAGES[lower]
         ELSE IF lower \in DOMAIN mapping THEN SUPPORTED_LANGUAGES[mapping[lower]]
         ELSE "Python"

\* models.py:22-40
normalize_language(lang) ==
    IF lang = None \/ lang[1] = <<>> THEN "python"
    ELSE LET lower == Lower(lang[1]) IN
         IF lower \in DOMAIN SUPPORTED_LANGUAGES THEN SUPPORTED_LANGUAGES[lower]
         ELSE IF lower \in DOMAIN mapping THEN SUPPORTED_LANGUAGES[mapping[lower]]
         ELSE "python"

\* collab_state.py:13-21, in declaration order: the display name, as the
\* tuple of its characters, and the identifier
FRONT_SUPPORTED_LANGUAGES ==
    << [display |-> <<"P","y","t","h","o","n">>, internal |-> "python"],
       [display |-> <<"J","a","v","a","S","c","r","i","p","t">>,
        internal |-> "javascript"],
       [display |-> <<"T","y","p","e","S","c","r","i","p","t">>,
        internal |-> "typescript"],
       [display |-> <<"S","Q","L">>, internal |-> "sql"],
       [display |-> <<"J","a","v","a">>, internal |-> "java"],
       [display |-> <<"C">>, internal |-> "c"],
       [display |-> <<"C","+","+">>, internal |-> "cpp"] >>

\* collab_state.py:75-87: the first entry, in declaration order, whose
\* display name or identifier is the input in lower case
front_normalize_language(lang_key) ==
    IF lang_key = None \/ lang_key[1] = <<>> THEN "python"
    ELSE LET lower == Lower(lang_key[1])
             found == {i \in 1..Len(FRONT_SUPPORTED_LANGUAGES) :
                         \/ lower = Lower(FRONT_SUPPORTED_LANGUAGES[i].display)
                         \/ lower = Lower(Chars[FRONT_SUPPORTED_LANGUAGES[i]
                                                  .internal])}
         IN IF found # {}
            THEN FRONT_SUPPORTED_LANGUAGES[
                     CHOOSE i \in found : \A j \in found : i <= j].internal
            ELSE "python"

\* models.py:43-47
RoomState(room_id, code, language, last_updated) ==
    [room_id |-> room_id, code |-> code, language |-> language,
     last_updated |-> last_updated]

\* str.upper() on one character
UpperChar(c) ==
    IF \E i \in 1..Len(LowerAlpha) : LowerAlpha[i] = c
    THEN UpperAlpha[CHOOSE i \in 1..Len(LowerAlpha) : LowerAlpha[i] = c]
    ELSE c

\* the spellings of a lower-case string that differ from it in case only
CaseVariants(s) ==
    {[i \in 1..Len(s) |-> IF i \in U THEN UpperChar(s[i]) ELSE s[i]] :
        U \in SUBSET (1..Len(s))}

\* the case variants of every identifier and alias normalize_language knows
KnownVariants == [k \in Language \cup DOMAIN mapping |-> CaseVariants(Chars[k])]

\* characters of the strings that are nobody's case variant
OtherAlphabet == {"c", "C", "j", "s", "T", "+", "x", " "}

\* strings of at most two characters, and near misses of the known ones
ShortStrings ==
    {<<>>} \cup {<<a>> : a \in OtherAlphabet}
           \cup {<<a, b>> : a, b \in OtherAlphabet}
           \cup {<<" ","p","y","t","h","o","n">>, <<"c","p","p"," ">>,
                 <<"c","+">>, <<"j","a","v","a","s">>, <<"r","u","s","t">>,
                 <<"C","#">>, <<"s","q","l",";">>}

\* the inputs of normalize_language: Optional[str]
LangInputs ==
    {None} \cup {Some(s) : s \in ShortStrings}
           \cup {Some(s) : s \in UNION {KnownVariants[k] :
                                          k \in DOMAIN KnownVariants}}

(* --------------------------- state ------------------------------------ *)

VARIABLES
    heap,       \* the RoomState objects: reference -> field values
    rooms,      \* RoomsStore._rooms: a dict room_id -> reference
    lock,       \* RoomsStore._lock: the thread holding it, or NoThread
    clock,      \* the last value time.time() returned
    pc,         \* per thread: where it is in its RoomsStore call
    call,       \* per thread: the call and its arguments
    existing,   \* per thread: the local `existing`
    data,       \* per thread: the local `data` (create_room: `room`)
    ts,         \* per thread: the value of time.time() its call read
    ret,        \* per thread: the reference returned (NoRef for None)
    listret,    \* per thread: the dict list_rooms returned
    calls,      \* number of RoomsStore calls begun by the threads
    seq,        \* per room: how many mutations of it have entered the lock
    entry,      \* per thread: the value of seq when its mutation entered
    abs,        \* the room values after the mutations so far, each taken whole
    wsState,    \* per connection: "none", "open" or "closed"
    wsRoom,     \* per connection: the room_id of its path
    outbox,     \* per connection: the payloads the server has sent on it
    last,       \* the request or message the application handled last
    msgs,       \* number of requests and messages the application handled
    lang,       \* NormSpec: the argument of normalize_language
    normalized, \* NormSpec: normalize_language(lang), "" before the call
    renormalized, \* NormSpec: normalize_language(normalized), "" before the call
    front_normalized, \* NormSpec: the frontend's normalize_language(lang)
    session_state, \* SessionSpec: st.session_state of one client session
    backend_rooms, \* SessionSpec: the rooms of the backend the client talks to
    page_room,  \* SessionSpec: the local `room` of main(), None before a sync
    prior,      \* SessionSpec: session_state before the last sync
    did,        \* SessionSpec: what the client or its environment did last
    stale,      \* SessionSpec: a sync began with the client behind the server
    syncs,      \* SessionSpec: syncs since then with nothing else changed
    fetches,    \* SessionSpec: those of them whose get_room returned the room
    wall,       \* SessionSpec, FrontStoreSpec: the last value of time.time()
    front_rooms, \* FrontStoreSpec: collab_state.RoomsStore._rooms
    front_ret,  \* FrontStoreSpec: the room the last call returned
    front_did,  \* FrontStoreSpec: the last call and its arguments
    supplied    \* FrontStoreSpec: per room, the last code and language supplied

normVars == <<lang, normalized, renormalized, front_normalized>>
sessionVars == <<session_state, backend_rooms, page_room, prior, did, stale,
                 syncs, fetches>>
storeVars == <<front_rooms, front_ret, front_did, supplied>>
clientVars == <<sessionVars, wall, storeVars>>
fnVars == <<normVars, clientVars>>
appVars == <<wsState, wsRoom, outbox, last, msgs, fnVars>>
vars == <<heap, rooms, lock, clock, pc, call, existing, data, ts, ret, listret,
          calls, seq, entry, abs, wsState, wsRoom, outbox, last, msgs, lang,
          normalized, renormalized, front_normalized, session_state, backend_rooms, page_room,
          prior,
          did, stale, syncs, fetches, wall, front_rooms, front_ret, front_did,
          supplied>>

Conns == {"c1", "c2"}

NoCall == [op |-> "none", room_id |-> "", code |-> None, language |-> None,
           contended |-> FALSE]

NoRequest == [kind |-> "none", conn |-> "", room_id |-> "", status |-> 0]

Range(f) == {f[x] : x \in DOMAIN f}

\* the references some variable still holds
Live(rms, ex, da, re, lr) ==
    (Range(rms) \cup Range(ex) \cup Range(da) \cup Range(re)
       \cup UNION {Range(lr[t]) : t \in DOMAIN lr}) \ {NoRef}

\* Python frees an object nothing refers to
Collect(h, rms, ex, da, re, lr) ==
    [r \in (DOMAIN h \cap Live(rms, ex, da, re, lr)) |-> h[r]]

\* a new object
Fresh(h) == CHOOSE r \in Refs \ DOMAIN h : \A q \in Refs \ DOMAIN h : r <= q

\* dict[key] = value
DictSet(d, k, v) == [x \in DOMAIN d \cup {k} |-> IF x = k THEN v ELSE d[x]]

\* what an observer reads through a dict of references
View(d) == [id \in DOMAIN d |-> heap[d[id]]]

\* a new RoomsStore, no connection, no request yet
BackendInit ==
    /\ heap = <<>>
    /\ rooms = <<>>
    /\ lock = NoThread
    /\ clock = 1
    /\ pc = [t \in Threads |-> "idle"]
    /\ call = [t \in Threads |-> NoCall]
    /\ existing = [t \in Threads |-> NoRef]
    /\ data = [t \in Threads |-> NoRef]
    /\ ts = [t \in Threads |-> 0]
    /\ ret = [t \in Threads |-> NoRef]
    /\ listret = [t \in Threads |-> <<>>]
    /\ calls = 0
    /\ seq = [id \in Ids |-> 0]
    /\ entry = [t \in Threads |-> 0]
    /\ abs = <<>>
    /\ wsState = [c \in Conns |-> "none"]
    /\ wsRoom = [c \in Conns |-> ""]
    /\ outbox = [c \in Conns |-> <<>>]
    /\ last = NoRequest
    /\ msgs = 0

\* the identifier in the page's URL, and the one a recreated room gets
RoomParam == "r1"
Recreated == "r2"

\* a page nobody has loaded yet, a backend without rooms, and
\* collab_state.py:35-37: a new frontend RoomsStore
ClientInit ==
    /\ session_state = <<>>
    /\ backend_rooms = <<>>
    /\ page_room = None
    /\ prior = <<>>
    /\ did = "none"
    /\ stale = FALSE
    /\ syncs = 0
    /\ fetches = 0
    /\ wall = 1
    /\ front_rooms = <<>>
    /\ front_ret = None
    /\ front_did = [op |-> "none", room_id |-> "", code |-> None,
                    language |-> None]
    /\ supplied = [id \in Ids |-> [code |-> None, language |-> None]]

Init ==
    /\ BackendInit
    /\ lang = None
    /\ normalized = ""
    /\ renormalized = ""
    /\ front_normalized = ""
    /\ ClientInit

(* ------------------------- store.py: RoomsStore ------------------------ *)

\* store.py:22-23: uuid4().hex[:8] is any identifier, also one already in use
generate_room_id == Ids

\* store.py:23: the number of characters kept of uuid4().hex
IdLength == 8

\* uuid4().hex for the two identifiers of the model: 32 hexadecimal digits
uuid4_hex ==
    [id \in Ids |->
       IF id = "r1"
       THEN <<"3","f","2","a","9","c","0","1", "7","b","4","4", "4","e","1","d",
              "a","0","6","5", "9","9","c","2","e","8","1","b","7","d","0","f">>
       ELSE <<"c","0","f","f","e","e","1","2", "0","a","9","b", "4","c","3","d",
              "8","e","7","f", "1","2","3","4","5","6","7","8","9","a","b","c">>]

\* store.py:23: uuid4().hex[:8], the characters of an identifier
room_id_chars == [id \in Ids |-> SubSeq(uuid4_hex[id], 1, IdLength)]

\* time.time(): the wall clock does not run backwards, and two reads may
\* fall within one tick of it
Time == clock..MaxClock

\* mutant: the lock does not exclude anybody
LockAvailable_unguarded == TRUE

\* `with self._lock:` can be entered
LockAvailable == lock = NoThread

\* mutant: the identifier is generated once for the key and once for the room
create_new_room_second_id(room_id, code, language, now) ==
    RoomState(CHOOSE other \in Ids : other # room_id, code,
              normalize_language(language), now)

\* mutant: the language argument is dropped
create_new_room_default_language(room_id, code, language, now) ==
    RoomState(room_id, code, "python", now)

\* store.py:26-34: the RoomState create_room builds
create_new_room(room_id, code, language, now) ==
    RoomState(room_id, code, normalize_language(language), now)

\* mutant: the new room gets the default language whatever was supplied
upsert_new_room_default_language(room_id, code, language, now) ==
    RoomState(room_id, OrEmpty(code), "python", now)

\* store.py:54-59: the RoomState upsert_room builds for an unknown identifier
upsert_new_room(room_id, code, language, now) ==
    RoomState(room_id, OrEmpty(code), normalize_language(language), now)

\* mutant: no copy is made, data is the stored object itself
model_copy_alias(existingRef, freshRef) == existingRef

\* store.py:63 and store.py:83: existing.model_copy() is a new object
model_copy(existingRef, freshRef) == freshRef

\* store.py:64-65
upsert_set_code(room, code) ==
    IF code # None THEN [room EXCEPT !.code = code[1]] ELSE room

\* store.py:66-67
upsert_set_language(room, language) ==
    IF language # None
    THEN [room EXCEPT !.language = normalize_language(language)] ELSE room

\* mutant: an omitted code is written as the empty string
update_set_code_or_empty(room, code) == [room EXCEPT !.code = OrEmpty(code)]

\* store.py:84-85
update_set_code(room, code) ==
    IF code # None THEN [room EXCEPT !.code = code[1]] ELSE room

\* store.py:86-87
update_set_language(room, language) ==
    IF language # None
    THEN [room EXCEPT !.language = normalize_language(language)] ELSE room

\* store.py:68 and 88: data.last_updated = time.time()
set_last_updated(room, now) == [room EXCEPT !.last_updated = now]

\* main.py:90-100: PATCH /rooms/{room_id} answers 404 when update_room
\* returned None, and 200 with the room otherwise
update_room_status(room) == IF room = NoRef THEN 404 ELSE 200

\* what one whole mutation c, reading the time now, does to room values s
ApplyCall(s, c, now) ==
    IF c.op = "create_room"
    THEN DictSet(s, c.room_id,
                 RoomState(c.room_id, c.code[1],
                           normalize_language(c.language), now))
    ELSE IF c.room_id \notin DOMAIN s
    THEN IF c.op = "upsert_room"
         THEN DictSet(s, c.room_id,
                      RoomState(c.room_id,
                                IF c.code = None THEN "" ELSE c.code[1],
                                normalize_language(c.language), now))
         ELSE s
    ELSE DictSet(s, c.room_id,
                 [room_id |-> c.room_id,
                  code |-> IF c.code = None THEN s[c.room_id].code
                           ELSE c.code[1],
                  language |-> IF c.language = None THEN s[c.room_id].language
                               ELSE normalize_language(c.language),
                  last_updated |-> now])

\* a thread can start a call (the threads are interchangeable: the first
\* call is t1's)
CanCall(t) ==
    /\ pc[t] \in {"idle", "done"}
    /\ calls < MaxCalls
    /\ calls = 0 => t = "t1"

\* the identifiers a call can address (the identifiers are interchangeable:
\* the first call addresses r1)
Addressable == IF calls = 0 THEN {"r1"} ELSE Ids

\* a thread calls update_room or upsert_room; it has not reached the lock yet
BeginCall(t) ==
    /\ CanCall(t)
    /\ \E op \in {"update_room", "upsert_room"}, id \in Addressable,
          code \in CodeArgs, language \in LangArgs :
          call' = [call EXCEPT ![t] = [op |-> op, room_id |-> id,
                                       code |-> code, language |-> language,
                                       contended |-> lock # NoThread]]
    /\ pc' = [pc EXCEPT ![t] = "called"]
    /\ existing' = [existing EXCEPT ![t] = NoRef]
    /\ data' = [data EXCEPT ![t] = NoRef]
    /\ ts' = [ts EXCEPT ![t] = 0]
    /\ ret' = [ret EXCEPT ![t] = NoRef]
    /\ listret' = [listret EXCEPT ![t] = <<>>]
    /\ entry' = [entry EXCEPT ![t] = 0]
    /\ calls' = calls + 1
    /\ heap' = Collect(heap, rooms, existing', data', ret', listret')
    /\ UNCHANGED <<rooms, lock, clock, seq, abs>>
    /\ UNCHANGED appVars

\* store.py:25-34: create_room up to the lock
CreatePrepare(t) ==
    /\ CanCall(t)
    /\ Cardinality(DOMAIN heap) < MaxRefs
    /\ \E id \in generate_room_id \cap Addressable, code \in CodeStrs,
          language \in LangArgs,
          now \in Time :
          LET h == Collect(heap, rooms, [existing EXCEPT ![t] = NoRef],
                           [data EXCEPT ![t] = NoRef], [ret EXCEPT ![t] = NoRef],
                           [listret EXCEPT ![t] = <<>>])
              room == Fresh(h)
          IN /\ call' = [call EXCEPT ![t] = [op |-> "create_room", room_id |-> id,
                                            code |-> Some(code),
                                            language |-> language,
                                            contended |-> lock # NoThread]]
             /\ data' = [data EXCEPT ![t] = room]
             /\ heap' = DictSet(h, room, create_new_room(id, code, language, now))
             /\ ts' = [ts EXCEPT ![t] = now]
             /\ clock' = now
    /\ pc' = [pc EXCEPT ![t] = "create_lock"]
    /\ existing' = [existing EXCEPT ![t] = NoRef]
    /\ ret' = [ret EXCEPT ![t] = NoRef]
    /\ listret' = [listret EXCEPT ![t] = <<>>]
    /\ entry' = [entry EXCEPT ![t] = 0]
    /\ calls' = calls + 1
    /\ UNCHANGED <<rooms, lock, seq, abs>>
    /\ UNCHANGED appVars

\* store.py:35-37: create_room stores the room and returns it
CreateCommit(t) ==
    /\ pc[t] = "create_lock"
    /\ LockAvailable
    /\ rooms' = DictSet(rooms, call[t].room_id, data[t])
    /\ ret' = [ret EXCEPT ![t] = data[t]]
    /\ pc' = [pc EXCEPT ![t] = "done"]
    /\ seq' = [seq EXCEPT ![call[t].room_id] = @ + 1]
    /\ entry' = [entry EXCEPT ![t] = seq'[call[t].room_id]]
    /\ abs' = ApplyCall(abs, call[t], ts[t])
    /\ heap' = Collect(heap, rooms', existing, data, ret', listret)
    /\ UNCHANGED <<lock, clock, call, existing, data, ts, listret, calls>>
    /\ UNCHANGED appVars

\* mutant: update_room stores a default room under the unknown identifier
UpdateNotFound_creates(t) ==
    /\ pc[t] = "called"
    /\ call[t].op = "update_room"
    /\ LockAvailable
    /\ call[t].room_id \notin DOMAIN rooms
    /\ Cardinality(DOMAIN heap) < MaxRefs
    /\ LET room == Fresh(heap) IN
          /\ heap' = DictSet(heap, room,
                             RoomState(call[t].room_id, "", "python", clock))
          /\ rooms' = DictSet(rooms, call[t].room_id, room)
    /\ ret' = [ret EXCEPT ![t] = NoRef]
    /\ pc' = [pc EXCEPT ![t] = "done"]
    /\ UNCHANGED <<lock, clock, call, existing, data, ts, listret, calls, seq,
                   entry, abs>>
    /\ UNCHANGED appVars

\* store.py:79-82: update_room finds no room and returns None
UpdateNotFound(t) ==
    /\ pc[t] = "called"
    /\ call[t].op = "update_room"
    /\ LockAvailable
    /\ call[t].room_id \notin DOMAIN rooms
    /\ ret' = [ret EXCEPT ![t] = NoRef]
    /\ pc' = [pc EXCEPT ![t] = "done"]
    /\ UNCHANGED <<heap, rooms, lock, clock, call, existing, data, ts, listret,
                   calls, seq, entry, abs>>
    /\ UNCHANGED appVars

\* store.py:50-61: upsert_room finds no room, builds one, stores and returns it
UpsertCreate(t) ==
    /\ pc[t] = "called"
    /\ call[t].op = "upsert_room"
    /\ LockAvailable
    /\ call[t].room_id \notin DOMAIN rooms
    /\ Cardinality(DOMAIN heap) < MaxRefs
    /\ \E now \in Time :
          LET room == Fresh(heap) IN
          /\ heap' = DictSet(heap, room,
                             upsert_new_room(call[t].room_id, call[t].code,
                                             call[t].language, now))
          /\ rooms' = DictSet(rooms, call[t].room_id, room)
          /\ data' = [data EXCEPT ![t] = room]
          /\ ret' = [ret EXCEPT ![t] = room]
          /\ ts' = [ts EXCEPT ![t] = now]
          /\ abs' = ApplyCall(abs, call[t], now)
          /\ clock' = now
    /\ pc' = [pc EXCEPT ![t] = "done"]
    /\ seq' = [seq EXCEPT ![call[t].room_id] = @ + 1]
    /\ entry' = [entry EXCEPT ![t] = seq'[call[t].room_id]]
    /\ UNCHANGED <<lock, call, existing, listret, calls>>
    /\ UNCHANGED appVars

\* store.py:50-52 and 79-81: the lock is taken and the room is found
EnterExisting(t) ==
    /\ pc[t] = "called"
    /\ LockAvailable
    /\ call[t].room_id \in DOMAIN rooms
    /\ lock' = t
    /\ existing' = [existing EXCEPT ![t] = rooms[call[t].room_id]]
    /\ pc' = [pc EXCEPT ![t] = "copy"]
    /\ seq' = [seq EXCEPT ![call[t].room_id] = @ + 1]
    /\ entry' = [entry EXCEPT ![t] = seq'[call[t].room_id]]
    /\ UNCHANGED <<heap, rooms, clock, call, data, ts, ret, listret, calls, abs>>
    /\ UNCHANGED appVars

\* store.py:63 and 83: data = existing.model_copy()
Copy(t) ==
    /\ pc[t] = "copy"
    /\ Cardinality(DOMAIN heap) < MaxRefs
    /\ LET d == model_copy(existing[t], Fresh(heap)) IN
          /\ data' = [data EXCEPT ![t] = d]
          /\ heap' = DictSet(heap, d, heap[existing[t]])
    /\ pc' = [pc EXCEPT ![t] = "set_code"]
    /\ UNCHANGED <<rooms, lock, clock, call, existing, ts, ret, listret, calls,
                   seq, entry, abs>>
    /\ UNCHANGED appVars

\* store.py:64-65 and 84-85
SetCode(t) ==
    /\ pc[t] = "set_code"
    /\ heap' = [heap EXCEPT ![data[t]] =
                  IF call[t].op = "upsert_room"
                  THEN upsert_set_code(@, call[t].code)
                  ELSE update_set_code(@, call[t].code)]
    /\ pc' = [pc EXCEPT ![t] = "set_language"]
    /\ UNCHANGED <<rooms, lock, clock, call, existing, data, ts, ret, listret,
                   calls, seq, entry, abs>>
    /\ UNCHANGED appVars

\* store.py:66-67 and 86-87
SetLanguage(t) ==
    /\ pc[t] = "set_language"
    /\ heap' = [heap EXCEPT ![data[t]] =
                  IF call[t].op = "upsert_room"
                  THEN upsert_set_language(@, call[t].language)
                  ELSE update_set_language(@, call[t].language)]
    /\ pc' = [pc EXCEPT ![t] = "set_last_updated"]
    /\ UNCHANGED <<rooms, lock, clock, call, existing, data, ts, ret, listret,
                   calls, seq, entry, abs>>
    /\ UNCHANGED appVars

\* store.py:68 and 88: data.last_updated = time.time()
SetLastUpdated(t) ==
    /\ pc[t] = "set_last_updated"
    /\ \E now \in Time :
          /\ heap' = [heap EXCEPT ![data[t]] = set_last_updated(@, now)]
          /\ ts' = [ts EXCEPT ![t] = now]
          /\ clock' = now
    /\ pc' = [pc EXCEPT ![t] = "store"]
    /\ UNCHANGED <<rooms, lock, call, existing, data, ret, listret, calls, seq,
                   entry, abs>>
    /\ UNCHANGED appVars

\* mutant: data is returned but never put into the dict
Commit_not_stored(t) ==
    /\ pc[t] = "store"
    /\ ret' = [ret EXCEPT ![t] = data[t]]
    /\ lock' = NoThread
    /\ abs' = ApplyCall(abs, call[t], ts[t])
    /\ pc' = [pc EXCEPT ![t] = "done"]
    /\ heap' = Collect(heap, rooms, existing, data, ret', listret)
    /\ UNCHANGED <<rooms, clock, call, existing, data, ts, listret, calls, seq,
                   entry>>
    /\ UNCHANGED appVars

\* store.py:69-70 and 89-90: the dict takes data, the lock is left, data returned
Commit(t) ==
    /\ pc[t] = "store"
    /\ rooms' = DictSet(rooms, call[t].room_id, data[t])
    /\ ret' = [ret EXCEPT ![t] = data[t]]
    /\ lock' = NoThread
    /\ abs' = ApplyCall(abs, call[t], ts[t])
    /\ pc' = [pc EXCEPT ![t] = "done"]
    /\ heap' = Collect(heap, rooms', existing, data, ret', listret)
    /\ UNCHANGED <<clock, call, existing, data, ts, listret, calls, seq, entry>>
    /\ UNCHANGED appVars

\* store.py:39-41
get_room(t) ==
    /\ CanCall(t)
    /\ LockAvailable
    /\ \E id \in Addressable :
          /\ call' = [call EXCEPT ![t] = [op |-> "get_room", room_id |-> id,
                                         code |-> None, language |-> None,
                                         contended |-> FALSE]]
          /\ ret' = [ret EXCEPT ![t] =
                       IF id \in DOMAIN rooms THEN rooms[id] ELSE NoRef]
    /\ pc' = [pc EXCEPT ![t] = "done"]
    /\ existing' = [existing EXCEPT ![t] = NoRef]
    /\ data' = [data EXCEPT ![t] = NoRef]
    /\ ts' = [ts EXCEPT ![t] = 0]
    /\ listret' = [listret EXCEPT ![t] = <<>>]
    /\ entry' = [entry EXCEPT ![t] = 0]
    /\ calls' = calls + 1
    /\ heap' = Collect(heap, rooms, existing', data', ret', listret')
    /\ UNCHANGED <<rooms, lock, clock, seq, abs>>
    /\ UNCHANGED appVars

\* store.py:92-95: dict(self._rooms), a new dict of the same references
list_rooms(t) ==
    /\ CanCall(t)
    /\ LockAvailable
    /\ call' = [call EXCEPT ![t] = [op |-> "list_rooms", room_id |-> "",
                                   code |-> None, language |-> None,
                                   contended |-> FALSE]]
    /\ listret' = [listret EXCEPT ![t] = rooms]
    /\ pc' = [pc EXCEPT ![t] = "done"]
    /\ existing' = [existing EXCEPT ![t] = NoRef]
    /\ data' = [data EXCEPT ![t] = NoRef]
    /\ ts' = [ts EXCEPT ![t] = 0]
    /\ ret' = [ret EXCEPT ![t] = NoRef]
    /\ entry' = [entry EXCEPT ![t] = 0]
    /\ calls' = calls + 1
    /\ heap' = Collect(heap, rooms, existing', data', ret', listret')
    /\ UNCHANGED <<rooms, lock, clock, seq, abs>>
    /\ UNCHANGED appVars

Next ==
    \/ \E t \in Threads : BeginCall(t)
    \/ \E t \in Threads : CreatePrepare(t)
    \/ \E t \in Threads : CreateCommit(t)
    \/ \E t \in Threads : UpdateNotFound(t)
    \/ \E t \in Threads : UpsertCreate(t)
    \/ \E t \in Threads : EnterExisting(t)
    \/ \E t \in Threads : Copy(t)
    \/ \E t \in Threads : SetCode(t)
    \/ \E t \in Threads : SetLanguage(t)
    \/ \E t \in Threads : SetLastUpdated(t)
    \/ \E t \in Threads : Commit(t)
    \/ \E t \in Threads : get_room(t)
    \/ \E t \in Threads : list_rooms(t)

Spec == Init /\ [][Next]_vars

(* ------------- store.py: callers that write to what they got ---------- *)

\* the code a caller writes into a RoomState it was given
CallerCode == "z"

\* `room.code = "z"` on object r
SetField(h, r) == [h EXCEPT ![r].code = CallerCode]

\* store.py:92-95: a caller of list_rooms writes to a room value of the
\* mapping it was returned: rooms = store.list_rooms(); rooms[id].code = "z"
MutateListed(t) ==
    /\ pc[t] = "done"
    /\ call[t].op = "list_rooms"
    /\ \E id \in DOMAIN listret[t] :
          /\ heap[listret[t][id]].code # CallerCode
          /\ heap' = SetField(heap, listret[t][id])
    /\ UNCHANGED <<rooms, lock, clock, pc, call, existing, data, ts, ret,
                   listret, calls, seq, entry, abs>>
    /\ UNCHANGED appVars

\* store.py:92-95: a caller of list_rooms deletes a key of the mapping it was
\* returned: rooms = store.list_rooms(); del rooms[id]
MutateMapping(t) ==
    /\ pc[t] = "done"
    /\ call[t].op = "list_rooms"
    /\ \E id \in DOMAIN listret[t] :
          listret' = [listret EXCEPT ![t] =
                        [x \in DOMAIN listret[t] \ {id} |-> listret[t][x]]]
    /\ heap' = Collect(heap, rooms, existing, data, ret, listret')
    /\ UNCHANGED <<rooms, lock, clock, pc, call, existing, data, ts, ret,
                   calls, seq, entry, abs>>
    /\ UNCHANGED appVars

\* store.py:37, 41, 61, 70, 90: a caller of create_room, get_room, update_room
\* or upsert_room writes to the room it was returned: room.code = "z"
MutateReturned(t) ==
    /\ pc[t] = "done"
    /\ call[t].op \in {"create_room", "get_room", "update_room", "upsert_room"}
    /\ ret[t] # NoRef
    /\ heap[ret[t]].code # CallerCode
    /\ heap' = SetField(heap, ret[t])
    /\ UNCHANGED <<rooms, lock, clock, pc, call, existing, data, ts, ret,
                   listret, calls, seq, entry, abs>>
    /\ UNCHANGED appVars

AliasNext ==
    \/ Next
    \/ \E t \in Threads : MutateListed(t)
    \/ \E t \in Threads : MutateMapping(t)
    \/ \E t \in Threads : MutateReturned(t)

AliasSpec == Init /\ [][AliasNext]_vars

(* --------------------- main.py: the application ----------------------- *)

\* The endpoints are coroutines of one event loop and call the store without
\* awaiting, so a RoomsStore call made by a handler runs from its first to its
\* last line with no other handler in between.  A call is given as the heap
\* and the dict it leaves and the reference it returns.

StoreResult(h, rms, room) == [heap |-> h, rooms |-> rms, room |-> room]

\* store.py:25-37 as one step
create_room(h, rms, id, code, language, now) ==
    LET room == Fresh(h) IN
    StoreResult(DictSet(h, room, create_new_room(id, code, language, now)),
                DictSet(rms, id, room), room)

\* store.py:43-70 as one step
upsert_room(h, rms, id, code, language, now) ==
    IF id \notin DOMAIN rms
    THEN LET room == Fresh(h) IN
         StoreResult(DictSet(h, room, upsert_new_room(id, code, language, now)),
                     DictSet(rms, id, room), room)
    ELSE LET d == model_copy(rms[id], Fresh(h)) IN
         StoreResult(
             DictSet(h, d,
                     set_last_updated(
                         upsert_set_language(upsert_set_code(h[rms[id]], code),
                                             language),
                         now)),
             DictSet(rms, id, d), d)

\* mutant: the dict is rebuilt with the updated room only
update_room_alone(h, rms, id, code, language, now) ==
    IF id \notin DOMAIN rms
    THEN StoreResult(h, rms, NoRef)
    ELSE LET d == model_copy(rms[id], Fresh(h)) IN
         StoreResult(
             DictSet(h, d,
                     set_last_updated(
                         update_set_language(update_set_code(h[rms[id]], code),
                                             language),
                         now)),
             [x \in {id} |-> d], d)

\* store.py:72-90 as one step
update_room(h, rms, id, code, language, now) ==
    IF id \notin DOMAIN rms
    THEN StoreResult(h, rms, NoRef)
    ELSE LET d == model_copy(rms[id], Fresh(h)) IN
         StoreResult(
             DictSet(h, d,
                     set_last_updated(
                         update_set_language(update_set_code(h[rms[id]], code),
                                             language),
                         now)),
             DictSet(rms, id, d), d)

\* the handler returns: the store keeps what the call left, the handler's
\* locals are gone
Leave(r) ==
    /\ rooms' = r.rooms
    /\ heap' = Collect(r.heap, r.rooms, existing, data, ret, listret)

threadVars == <<lock, pc, call, existing, data, ts, ret, listret, calls, seq,
                entry, abs, fnVars>>

\* websocket.send_json(payload) on connection c
Send(c, payload) == outbox' = [outbox EXCEPT ![c] = Append(@, payload)]

\* main.py:137: the connections the room returned by an update is sent to
update_recipients(c) == {c}

\* a JSON value under the key "language" of a WebSocket message
JsonNull == [type |-> "null", str |-> <<>>]
JsonStr(s) == [type |-> "str", str |-> s]
JsonNumber == [type |-> "number", str |-> <<>>]

\* main.py:135: data.get("language") is whatever the client put there: absent
\* or null, a string, or a value that is no string (a number other than 0)
JsonLangs == {JsonNull, JsonStr(<<"J", "S">>), JsonNumber}

\* the Python value of a JSON null or string
AsOptionalStr(j) == IF j.type = "str" THEN Some(j.str) ELSE None

\* models.py:24-27: `not lang` is false for a non-zero number and
\* lang.lower() then raises AttributeError
lower_raises(j) == j.type = "number"

\* store.py:50-70 called with such a language: the exception leaves the
\* `with self._lock` block before any assignment to self._rooms
upsert_room_raises(language) == lower_raises(language)

\* the application can take one more request or message
CanHandle == msgs < MaxMsgs /\ Cardinality(DOMAIN heap) < MaxRefs

\* main.py:102-120: a client opens /ws/rooms/{room_id}; the handler accepts
WsConnect(c) ==
    /\ wsState[c] = "none"
    /\ \E id \in Ids : wsRoom' = [wsRoom EXCEPT ![c] = id]
    /\ wsState' = [wsState EXCEPT ![c] = "open"]
    /\ last' = [kind |-> "ws_connect", conn |-> c, room_id |-> wsRoom'[c],
                status |-> 0]
    /\ UNCHANGED <<heap, rooms, clock, outbox, msgs>>
    /\ UNCHANGED threadVars

\* mutant: the room is upserted without looking it up first
WsGet_always_upserts(c) ==
    /\ wsState[c] = "open"
    /\ CanHandle
    /\ \E now \in Time :
          LET r == upsert_room(heap, rooms, wsRoom[c], None, None, now)
          IN /\ Leave(r)
             /\ Send(c, r.heap[r.room])
             /\ clock' = now
    /\ last' = [kind |-> "ws_get", conn |-> c, room_id |-> wsRoom[c],
                status |-> 0]
    /\ msgs' = msgs + 1
    /\ UNCHANGED <<wsState, wsRoom>>
    /\ UNCHANGED threadVars

\* mutant: the room is sent to every open connection of the room
WsGet_broadcasts(c) ==
    /\ wsState[c] = "open"
    /\ CanHandle
    /\ \E now \in Time :
          LET r == IF wsRoom[c] \in DOMAIN rooms
                   THEN StoreResult(heap, rooms, rooms[wsRoom[c]])
                   ELSE upsert_room(heap, rooms, wsRoom[c], None, None, now)
          IN /\ Leave(r)
             /\ outbox' = [d \in Conns |->
                             IF wsState[d] = "open" /\ wsRoom[d] = wsRoom[c]
                             THEN Append(outbox[d], r.heap[r.room])
                             ELSE outbox[d]]
             /\ clock' = IF wsRoom[c] \in DOMAIN rooms THEN clock ELSE now
    /\ last' = [kind |-> "ws_get", conn |-> c, room_id |-> wsRoom[c],
                status |-> 0]
    /\ msgs' = msgs + 1
    /\ UNCHANGED <<wsState, wsRoom>>
    /\ UNCHANGED threadVars

\* main.py:123-131: {"action": "get"}
WsGet(c) ==
    /\ wsState[c] = "open"
    /\ CanHandle
    /\ \E now \in Time :
          LET r == IF wsRoom[c] \in DOMAIN rooms
                   THEN StoreResult(heap, rooms, rooms[wsRoom[c]])
                   ELSE upsert_room(heap, rooms, wsRoom[c], None, None, now)
          IN /\ Leave(r)
             /\ Send(c, r.heap[r.room])
             /\ clock' = IF wsRoom[c] \in DOMAIN rooms THEN clock ELSE now
    /\ last' = [kind |-> "ws_get", conn |-> c, room_id |-> wsRoom[c],
                status |-> 0]
    /\ msgs' = msgs + 1
    /\ UNCHANGED <<wsState, wsRoom>>
    /\ UNCHANGED threadVars

\* main.py:123-124, 133-137: {"action": "update", "code": .., "language": ..}
WsUpdate(c) ==
    /\ wsState[c] = "open"
    /\ CanHandle
    /\ \E code \in CodeArgs, language \in JsonLangs, now \in Time :
          IF upsert_room_raises(language)
          THEN \* nothing but WebSocketDisconnect is caught (main.py:143)
               /\ wsState' = [wsState EXCEPT ![c] = "failed"]
               /\ last' = [kind |-> "ws_update", conn |-> c,
                           room_id |-> wsRoom[c], status |-> 0]
               /\ UNCHANGED <<heap, rooms, clock, outbox>>
          ELSE LET r == upsert_room(heap, rooms, wsRoom[c], code,
                                    AsOptionalStr(language), now)
               IN /\ Leave(r)
                  /\ outbox' = [d \in Conns |->
                                  IF d \in update_recipients(c)
                                  THEN Append(outbox[d], r.heap[r.room])
                                  ELSE outbox[d]]
                  /\ clock' = now
                  /\ last' = [kind |-> "ws_update", conn |-> c,
                              room_id |-> wsRoom[c], status |-> 0]
                  /\ UNCHANGED wsState
    /\ msgs' = msgs + 1
    /\ UNCHANGED wsRoom
    /\ UNCHANGED threadVars

\* mutant: the error is sent and the loop is left
WsUnknown_closes(c) ==
    /\ wsState[c] = "open"
    /\ CanHandle
    /\ Send(c, [error |-> "Unknown action"])
    /\ wsState' = [wsState EXCEPT ![c] = "closed"]
    /\ last' = [kind |-> "ws_unknown", conn |-> c, room_id |-> wsRoom[c],
                status |-> 0]
    /\ msgs' = msgs + 1
    /\ UNCHANGED <<heap, rooms, clock, wsRoom>>
    /\ UNCHANGED threadVars

\* main.py:123-124, 139-142: any other action
WsUnknown(c) ==
    /\ wsState[c] = "open"
    /\ CanHandle
    /\ Send(c, [error |-> "Unknown action"])
    /\ last' = [kind |-> "ws_unknown", conn |-> c, room_id |-> wsRoom[c],
                status |-> 0]
    /\ msgs' = msgs + 1
    /\ UNCHANGED <<heap, rooms, clock, wsState, wsRoom>>
    /\ UNCHANGED threadVars

\* mutant: every connection of the room is closed with it
WsDisconnect_closes_room(c) ==
    /\ wsState[c] = "open"
    /\ wsState' = [d \in Conns |->
                     IF wsState[d] = "open" /\ wsRoom[d] = wsRoom[c]
                     THEN "closed" ELSE wsState[d]]
    /\ last' = [kind |-> "ws_disconnect", conn |-> c, room_id |-> wsRoom[c],
                status |-> 0]
    /\ UNCHANGED <<heap, rooms, clock, wsRoom, outbox, msgs>>
    /\ UNCHANGED threadVars

\* main.py:123, 143-145: receive_json raises WebSocketDisconnect
WsDisconnect(c) ==
    /\ wsState[c] = "open"
    /\ wsState' = [wsState EXCEPT ![c] = "closed"]
    /\ last' = [kind |-> "ws_disconnect", conn |-> c, room_id |-> wsRoom[c],
                status |-> 0]
    /\ UNCHANGED <<heap, rooms, clock, wsRoom, outbox, msgs>>
    /\ UNCHANGED threadVars

\* main.py:33-47: POST /rooms
PostRoom ==
    /\ CanHandle
    /\ \E id \in generate_room_id, code \in CodeStrs, language \in LangArgs,
          now \in Time :
          LET r == create_room(heap, rooms, id, code, language, now)
          IN /\ Leave(r)
             /\ clock' = now
             /\ last' = [kind |-> "post", conn |-> "", room_id |-> id,
                         status |-> 201]
    /\ msgs' = msgs + 1
    /\ UNCHANGED <<wsState, wsRoom, outbox>>
    /\ UNCHANGED threadVars

\* main.py:80-100: PATCH /rooms/{room_id}
PatchRoom ==
    /\ CanHandle
    /\ \E id \in Ids, code \in CodeArgs, language \in LangArgs, now \in Time :
          LET r == update_room(heap, rooms, id, code, language, now)
          IN /\ Leave(r)
             /\ clock' = IF r.room = NoRef THEN clock ELSE now
             /\ last' = [kind |-> "patch", conn |-> "", room_id |-> id,
                         status |-> update_room_status(r.room)]
    /\ msgs' = msgs + 1
    /\ UNCHANGED <<wsState, wsRoom, outbox>>
    /\ UNCHANGED threadVars

\* mutant: an unknown identifier is created, as the WebSocket "get" does
GetRoom_upserts ==
    /\ CanHandle
    /\ \E id \in Ids, now \in Time :
          LET r == upsert_room(heap, rooms, id, None, None, now)
          IN /\ Leave(r)
             /\ clock' = now
             /\ last' = [kind |-> "get", conn |-> "", room_id |-> id,
                         status |-> 200]
    /\ msgs' = msgs + 1
    /\ UNCHANGED <<wsState, wsRoom, outbox>>
    /\ UNCHANGED threadVars

\* main.py:62-77: GET /rooms/{room_id}
GetRoom ==
    /\ CanHandle
    /\ \E id \in Ids :
          LET room == IF id \in DOMAIN rooms THEN rooms[id] ELSE NoRef
          IN last' = [kind |-> "get", conn |-> "", room_id |-> id,
                      status |-> IF room = NoRef THEN 404 ELSE 200]
    /\ msgs' = msgs + 1
    /\ UNCHANGED <<heap, rooms, clock, wsState, wsRoom, outbox>>
    /\ UNCHANGED threadVars

\* main.py:50-59: GET /rooms
GetRooms ==
    /\ CanHandle
    /\ last' = [kind |-> "list", conn |-> "", room_id |-> "", status |-> 200]
    /\ msgs' = msgs + 1
    /\ UNCHANGED <<heap, rooms, clock, wsState, wsRoom, outbox>>
    /\ UNCHANGED threadVars

AppNext ==
    \/ \E c \in Conns : WsConnect(c)
    \/ \E c \in Conns : WsGet(c)
    \/ \E c \in Conns : WsUpdate(c)
    \/ \E c \in Conns : WsUnknown(c)
    \/ \E c \in Conns : WsDisconnect(c)
    \/ PostRoom
    \/ PatchRoom
    \/ GetRoom
    \/ GetRooms

AppSpec == Init /\ [][AppNext]_vars

(* ------------------- models.py: normalize_language -------------------- *)

backendVars == <<heap, rooms, lock, clock, pc, call, existing, data, ts, ret,
                 listret, calls, seq, entry, abs, wsState, wsRoom, outbox, last,
                 msgs>>

NormInit ==
    /\ BackendInit
    /\ ClientInit
    /\ lang \in LangInputs
    /\ normalized = ""
    /\ renormalized = ""
    /\ front_normalized = ""

\* models.py:22-40: normalize_language(lang)
Normalize ==
    /\ normalized = ""
    /\ normalized' = normalize_language(lang)
    /\ UNCHANGED <<lang, renormalized, front_normalized>>
    /\ UNCHANGED <<backendVars, clientVars>>

\* models.py:22-40: normalize_language applied to what it returned
Renormalize ==
    /\ normalized # ""
    /\ renormalized = ""
    /\ renormalized' = normalize_language(Some(Chars[normalized]))
    /\ UNCHANGED <<lang, normalized, front_normalized>>
    /\ UNCHANGED <<backendVars, clientVars>>

\* collab_state.py:75-87: the frontend's normalize_language(lang)
FrontNormalize ==
    /\ front_normalized = ""
    /\ front_normalized' = front_normalize_language(lang)
    /\ UNCHANGED <<lang, normalized, renormalized>>
    /\ UNCHANGED <<backendVars, clientVars>>

NormNext == Normalize \/ Renormalize \/ FrontNormalize

NormSpec == NormInit /\ [][NormNext]_vars

(* ------------- app_frontend/main.py: one client session --------------- *)

\* The Streamlit script of one browser session.  Of a room the model keeps
\* the fields sync_room_into_session reads: room_id, code and last_updated.
\* backend_rooms holds the room of the page's URL and the last room the
\* session had the backend recreate; RoomParam names the identifier in the
\* URL, whichever room that is.

Stamps == 1..MaxWall

\* what the editor widget can hold
EditorCodes == {"", "a"}

\* dict.get(key, default)
Get(d, k, default) == IF k \in DOMAIN d THEN d[k] ELSE default

\* the JSON of a room of the backend
RoomJson(id) == [room_id |-> id, code |-> backend_rooms[id].code,
                 last_updated |-> backend_rooms[id].last_updated]

\* main.py:79-84: the room built when get_room raises
fallback_room(ss, now) ==
    [room_id |-> RoomParam, code |-> Get(ss, "code_editor", ""),
     last_updated |-> Get(ss, "code_version", now)]

\* main.py:92-97: the room built when create_room raises
missing_room(now) == [room_id |-> RoomParam, code |-> "", last_updated |-> now]

\* main.py:100-103: the first sync of a session
initialize(ss, rm) ==
    IF "code_editor" \notin DOMAIN ss
    THEN DictSet(DictSet(DictSet(ss, "code_editor", rm.code),
                         "code_version", rm.last_updated),
                 "last_change_origin", "remote")
    ELSE ss

\* mutant: a local change does not hold back the remote snapshot
reconcile_ignores_origin(ss, rm) ==
    LET s1 == initialize(ss, rm) IN
    IF rm.last_updated > Get(s1, "code_version", 0)
    THEN DictSet(DictSet(DictSet(s1, "code_editor", rm.code),
                         "code_version", rm.last_updated),
                 "last_change_origin", "remote")
    ELSE s1

\* mutant: a snapshot of the same time is taken as newer
reconcile_on_equal(ss, rm) ==
    LET s1 == initialize(ss, rm) IN
    IF rm.last_updated >= Get(s1, "code_version", 0)
    THEN LET s2 == IF Get(s1, "last_change_origin", "") # "local"
                   THEN DictSet(DictSet(s1, "code_editor", rm.code),
                                "code_version", rm.last_updated)
                   ELSE s1
         IN DictSet(s2, "last_change_origin", "remote")
    ELSE s1

\* mutant: the origin stays "local" after a newer snapshot was seen
reconcile_keeps_origin(ss, rm) ==
    LET s1 == initialize(ss, rm) IN
    IF rm.last_updated > Get(s1, "code_version", 0)
    THEN IF Get(s1, "last_change_origin", "") # "local"
         THEN DictSet(DictSet(s1, "code_editor", rm.code),
                      "code_version", rm.last_updated)
         ELSE s1
    ELSE s1

\* main.py:99-110: session_state after the sync with the room rm
reconcile(ss, rm) ==
    LET s1 == initialize(ss, rm) IN
    IF rm.last_updated > Get(s1, "code_version", 0)
    THEN LET s2 == IF Get(s1, "last_change_origin", "") # "local"
                   THEN DictSet(DictSet(s1, "code_editor", rm.code),
                                "code_version", rm.last_updated)
                   ELSE s1
         IN DictSet(s2, "last_change_origin", "remote")
    ELSE s1

\* the session has a code_version the room of the URL is newer than
Behind ==
    /\ RoomParam \in DOMAIN backend_rooms
    /\ "code_version" \in DOMAIN session_state
    /\ backend_rooms[RoomParam].last_updated > session_state["code_version"]

\* the room of the URL or the editor content is written: nothing is pending
Changed ==
    /\ stale' = FALSE
    /\ syncs' = 0
    /\ fetches' = 0

\* main.py:74-97: the rooms the sync can end up with.  get_room returns the
\* room, returns None (404) or raises; after None create_room returns a new
\* room, with the time of the backend, or raises.  The time of the client's
\* clock, which only the rooms built by the client carry, is any stamp.
SyncOutcomes ==
    LET known == RoomParam \in DOMAIN backend_rooms
        raised == {[fetched |-> FALSE, recreated |-> FALSE,
                    room |-> fallback_room(session_state, cnow)] :
                      cnow \in IF "code_version" \in DOMAIN session_state
                               THEN {wall} ELSE Stamps}
    IN IF known
       THEN raised \cup {[fetched |-> TRUE, recreated |-> FALSE,
                          room |-> RoomJson(RoomParam)]}
       ELSE raised
            \cup {[fetched |-> TRUE, recreated |-> TRUE,
                   room |-> [room_id |-> Recreated, code |-> "",
                             last_updated |-> snow]] : snow \in wall..MaxWall}
            \cup {[fetched |-> TRUE, recreated |-> FALSE,
                   room |-> missing_room(cnow)] : cnow \in Stamps}

\* main.py:68-113: sync_room_into_session(room_id)
SyncRoomIntoSession ==
    \E o \in SyncOutcomes :
        /\ backend_rooms' =
              IF o.recreated
              THEN DictSet(backend_rooms, Recreated,
                           [code |-> "", last_updated |-> o.room.last_updated])
              ELSE backend_rooms
        /\ wall' = IF o.recreated THEN o.room.last_updated ELSE wall
        /\ session_state' = reconcile(session_state, o.room)
        /\ page_room' = Some(o.room)
        /\ prior' = session_state
        /\ did' = "sync"
        /\ IF RoomParam \notin DOMAIN backend_rooms
           THEN Changed
           ELSE IF stale
           THEN /\ stale' = TRUE
                /\ syncs' = IF syncs < 2 THEN syncs + 1 ELSE syncs
                /\ fetches' = IF o.fetched /\ fetches < 2
                              THEN fetches + 1 ELSE fetches
           ELSE IF Behind
           THEN /\ stale' = TRUE
                /\ syncs' = 1
                /\ fetches' = IF o.fetched THEN 1 ELSE 0
           ELSE Changed
        /\ UNCHANGED <<backendVars, normVars, storeVars>>

\* api_client.update_room as the backend answers it: the PATCH of a room the
\* backend has returns the room with the backend's time
Patched(id, code, now) ==
    DictSet(backend_rooms, id,
            [code |-> IF code = None THEN backend_rooms[id].code ELSE code[1],
             last_updated |-> now])

\* main.py:186-191: another language is selected and sent to the backend
ChangeLanguage ==
    /\ page_room # None
    /\ \E sent \in BOOLEAN :
        \E now \in IF sent THEN wall..MaxWall ELSE {wall} :
          LET id == page_room[1].room_id
              ok == sent /\ id \in DOMAIN backend_rooms
          IN /\ backend_rooms' = IF ok THEN Patched(id, None, now)
                                 ELSE backend_rooms
             /\ wall' = IF ok THEN now ELSE wall
             /\ page_room' = IF ok
                        THEN Some([room_id |-> id,
                                   code |-> backend_rooms[id].code,
                                   last_updated |-> now])
                        ELSE page_room
    /\ did' = "language"
    /\ Changed
    /\ UNCHANGED <<session_state, prior>>
    /\ UNCHANGED <<backendVars, normVars, storeVars>>

\* what main.py:204-208 and 222-230 leave in session_state and the backend
\* after the editor became new_code
PushEditor(new_code) ==
    \E sent \in BOOLEAN :
      \E now \in IF sent THEN wall..MaxWall ELSE {wall} :
        LET id == page_room[1].room_id
            ok == sent /\ id \in DOMAIN backend_rooms
            s1 == DictSet(DictSet(session_state, "code_editor", new_code),
                          "last_change_origin", "local")
        IN /\ backend_rooms' = IF ok THEN Patched(id, Some(new_code), now)
                               ELSE backend_rooms
           /\ wall' = IF ok THEN now ELSE wall
           /\ session_state' = IF ok THEN DictSet(s1, "code_version", now)
                               ELSE s1

\* main.py:201-208: the "Clear editor" button
ClearEditor ==
    /\ page_room # None
    /\ PushEditor("")
    /\ did' = "clear"
    /\ Changed
    /\ UNCHANGED <<page_room, prior>>
    /\ UNCHANGED <<backendVars, normVars, storeVars>>

\* main.py:210-230: the editor widget returns a code that is not the one of
\* session_state
LocalEdit ==
    /\ page_room # None
    /\ \E new_code \in EditorCodes \ {Get(session_state, "code_editor", "")} :
          PushEditor(new_code)
    /\ did' = "edit"
    /\ Changed
    /\ UNCHANGED <<page_room, prior>>
    /\ UNCHANGED <<backendVars, normVars, storeVars>>

\* main.py:33-65: get_or_create_room_id_via_backend finds that the backend
\* has no room for the URL, creates one and puts its identifier in the URL
GetOrCreateRoomId ==
    /\ RoomParam \notin DOMAIN backend_rooms
    /\ \E now \in wall..MaxWall :
          /\ backend_rooms' = DictSet(backend_rooms, RoomParam,
                                      [code |-> "", last_updated |-> now])
          /\ wall' = now
    /\ did' = "open"
    /\ Changed
    /\ UNCHANGED <<session_state, page_room, prior>>
    /\ UNCHANGED <<backendVars, normVars, storeVars>>

\* another client writes the room of the URL (store.py:43-70 behind PATCH or
\* the WebSocket): the room is created if the backend has none
OtherClientWrites ==
    /\ \E code \in EditorCodes, now \in wall..MaxWall :
          /\ backend_rooms' = DictSet(backend_rooms, RoomParam,
                                      [code |-> code, last_updated |-> now])
          /\ wall' = now
    /\ did' = "other"
    /\ Changed
    /\ UNCHANGED <<session_state, page_room, prior>>
    /\ UNCHANGED <<backendVars, normVars, storeVars>>

\* store.py:18-20: the backend is started again and _rooms is empty
BackendRestart ==
    /\ backend_rooms # <<>>
    /\ backend_rooms' = <<>>
    /\ did' = "restart"
    /\ Changed
    /\ UNCHANGED <<session_state, page_room, prior, wall>>
    /\ UNCHANGED <<backendVars, normVars, storeVars>>

SessionNext ==
    \/ GetOrCreateRoomId
    \/ SyncRoomIntoSession
    \/ ChangeLanguage
    \/ ClearEditor
    \/ LocalEdit
    \/ OtherClientWrites
    \/ BackendRestart

SessionSpec == Init /\ [][SessionNext]_vars

(* ------------- app_frontend/collab_state.py: RoomsStore --------------- *)

FrontCodeArgs == {None, Some("a"), Some("b")}
FrontLangArgs == {None, Some("javascript"), Some("JS")}

\* collab_state.py:24-29: RoomState() at time now
FrontRoomState(now) ==
    [code |-> "", language |-> "python", last_updated |-> now]

\* mutant: a field that is not supplied is reset
front_update_fields_resets(r, code, language, now) ==
    [code |-> OrEmpty(code),
     language |-> IF language = None THEN r.language ELSE language[1],
     last_updated |-> now]

\* collab_state.py:54-58: the assignments of update to the room
front_update_fields(r, code, language, now) ==
    [code |-> IF code = None THEN r.code ELSE code[1],
     language |-> IF language = None THEN r.language ELSE language[1],
     last_updated |-> now]

\* collab_state.py:39-43: get_or_create(room_id), the lock held throughout
FrontGetOrCreate ==
    /\ \E id \in Ids, now \in wall..MaxWall :
          /\ front_rooms' = IF id \in DOMAIN front_rooms THEN front_rooms
                            ELSE DictSet(front_rooms, id, FrontRoomState(now))
          /\ wall' = IF id \in DOMAIN front_rooms THEN wall ELSE now
          /\ front_ret' = Some(front_rooms'[id])
          /\ front_did' = [op |-> "get_or_create", room_id |-> id,
                           code |-> None, language |-> None]
    /\ UNCHANGED supplied
    /\ UNCHANGED <<backendVars, normVars, sessionVars>>

\* collab_state.py:45-59: update(room_id, code, language), the lock held
\* throughout; RoomState() reads the clock at t0 and update reads it at now
FrontUpdate ==
    /\ \E id \in Ids, code \in FrontCodeArgs, language \in FrontLangArgs,
          t0 \in wall..MaxWall :
          \E now \in t0..MaxWall :
             LET r == IF id \in DOMAIN front_rooms THEN front_rooms[id]
                      ELSE FrontRoomState(t0)
             IN /\ front_rooms' =
                      DictSet(front_rooms, id,
                              front_update_fields(r, code, language, now))
                /\ wall' = now
                /\ front_ret' = Some(front_rooms'[id])
                /\ front_did' = [op |-> "update", room_id |-> id,
                                 code |-> code, language |-> language]
                /\ supplied' =
                      [supplied EXCEPT
                         ![id] = [code |-> IF code = None THEN @.code
                                           ELSE code,
                                  language |-> IF language = None
                                               THEN @.language ELSE language]]
    /\ UNCHANGED <<backendVars, normVars, sessionVars>>

\* collab_state.py:61-63: list_rooms()
FrontListRooms ==
    /\ front_did' = [op |-> "list_rooms", room_id |-> "", code |-> None,
                     language |-> None]
    /\ front_ret' = None
    /\ UNCHANGED <<front_rooms, supplied, wall>>
    /\ UNCHANGED <<backendVars, normVars, sessionVars>>

FrontStoreNext == FrontGetOrCreate \/ FrontUpdate \/ FrontListRooms

FrontStoreSpec == Init /\ [][FrontStoreNext]_vars

(* ------------------------------ claims -------------------------------- *)

\* thread t has returned from update_room or upsert_room on a room it found
Updated(t) ==
    /\ pc[t] = "done"
    /\ call[t].op \in {"update_room", "upsert_room"}
    /\ existing[t] # NoRef

\* the mutations of t and u are the last two that entered the lock for the
\* room they both address
LastTwo(t, u) ==
    /\ t # u
    /\ call[t].room_id = call[u].room_id
    /\ {entry[t], entry[u]} = {seq[call[t].room_id] - 1, seq[call[t].room_id]}

\* C1: when the WebSocket handler has accepted an "update" on a connection
\* bound to room r, every connection then open on room r has been sent the
\* room that update left in the store.
C1_UpdateReachesAllSubscribers ==
    last.kind = "ws_update"
    => \A d \in Conns :
          (wsState[d] = "open" /\ wsRoom[d] = last.room_id)
          => /\ outbox[d] # <<>>
             /\ outbox[d][Len(outbox[d])] = heap[rooms[last.room_id]]

\* C2: two update_room/upsert_room calls on the same existing room, one
\* supplying only code and the other only language, in whichever order they
\* got the lock: once both have returned the stored room holds the code of the
\* one and the language of the other.
C2_DisjointUpdatesBothApply ==
    \A t, u \in Threads :
        ( /\ Updated(t) /\ Updated(u) /\ LastTwo(t, u)
          /\ call[t].code # None /\ call[t].language = None
          /\ call[u].code = None /\ call[u].language # None )
        => /\ heap[rooms[call[t].room_id]].code = call[t].code[1]
           /\ heap[rooms[call[t].room_id]].language
                 = normalize_language(call[u].language)

\* C2 witness: the language-only call began while the code-only call held the
\* lock; both have returned and both changes are in the store
C2_Witness ==
    \E t, u \in Threads :
        /\ Updated(t) /\ Updated(u) /\ LastTwo(t, u)
        /\ entry[t] < entry[u] /\ call[u].contended
        /\ call[t].op = "update_room" /\ call[u].op = "upsert_room"
        /\ call[t].code = Some("b") /\ call[t].language = None
        /\ call[u].code = None /\ call[u].language = Some(<<"J", "S">>)
        /\ heap[existing[t]].code = "a"
        /\ heap[existing[t]].language = "python"
        /\ heap[rooms[call[t].room_id]].code = "b"
        /\ heap[rooms[call[t].room_id]].language = "javascript"

\* C3: of the update_room/upsert_room calls on a room, the one that entered
\* the lock last, once it has returned, is the one whose room is stored: the
\* stored fields it supplied are its values and the stored last_updated is
\* the time it wrote.
C3_LastEntrantWins ==
    \A t \in Threads :
        ( /\ pc[t] = "done"
          /\ call[t].op \in {"update_room", "upsert_room"}
          /\ entry[t] > 0
          /\ entry[t] = seq[call[t].room_id] )
        => /\ call[t].room_id \in DOMAIN rooms
           /\ heap[rooms[call[t].room_id]].last_updated = ts[t]
           /\ call[t].code # None
                 => heap[rooms[call[t].room_id]].code = call[t].code[1]
           /\ call[t].language # None
                 => heap[rooms[call[t].room_id]].language
                       = normalize_language(call[t].language)

\* C3 witness: two overlapping update_room calls write the code of one room;
\* the later entrant's code and time are the stored ones
C3_Witness ==
    \E t, u \in Threads :
        /\ Updated(t) /\ Updated(u) /\ LastTwo(t, u)
        /\ entry[t] < entry[u] /\ call[u].contended
        /\ call[t].code = Some("a") /\ call[u].code = Some("b")
        /\ ts[t] < ts[u]
        /\ heap[rooms[call[u].room_id]].code = "b"
        /\ heap[rooms[call[u].room_id]].last_updated = ts[u]

\* C4: the stored rooms are at every moment the result of the mutations so
\* far, each applied whole in the order of the lock; get_room and list_rooms
\* return that state, and what a caller was given does not change under a
\* later call: no observer sees part of one call's fields.
C4_OperationsAtomic ==
    [][ /\ View(rooms)' = abs'
        /\ \A t \in Threads :
              /\ (pc'[t] = "done" /\ call'[t].op = "get_room" /\ pc[t] # "done"
                    /\ ret'[t] # NoRef)
                    => heap'[ret'[t]] = abs[call'[t].room_id]
              /\ (pc'[t] = "done" /\ call'[t].op = "list_rooms" /\ pc[t] # "done")
                    => [id \in DOMAIN listret'[t] |-> heap'[listret'[t][id]]] = abs
              /\ (pc[t] = "done" /\ pc'[t] = "done" /\ call'[t] = call[t])
                    => /\ ret[t] # NoRef => heap'[ret[t]] = heap[ret[t]]
                       /\ \A id \in DOMAIN listret[t] :
                             heap'[listret[t][id]] = heap[listret[t][id]] ]_vars

\* C4 witness: a thread holds what get_room returned while another thread is
\* in the middle of update_room on that room, code and language already set
\* on its copy, the time not yet
C4_Witness ==
    \E t, u \in Threads :
        /\ pc[t] = "done" /\ call[t].op = "get_room" /\ ret[t] # NoRef
        /\ pc[u] = "set_last_updated" /\ call[u].room_id = call[t].room_id
        /\ ret[t] = existing[u]
        /\ heap[data[u]].code # heap[existing[u]].code
        /\ heap[data[u]].language # heap[existing[u]].language

\* C5: no create_room stores its room under an identifier that is already in
\* the store.
C5_CreateNeverReplaces ==
    [][\A t \in Threads :
          (pc[t] = "create_lock" /\ pc'[t] = "done")
              => call[t].room_id \notin DOMAIN rooms]_vars

\* C6: the stored last_updated of a room never decreases from one state of
\* the store to the next.
C6_LastUpdatedNeverDecreases ==
    [][\A id \in DOMAIN rooms :
          /\ id \in DOMAIN rooms'
          /\ heap'[rooms'[id]].last_updated >= heap[rooms[id]].last_updated]_vars

\* C7 as stated: an update_room or upsert_room on an existing room that changed
\* its code or its language left last_updated strictly greater than before.
C7_StrictlyGreater ==
    \A t \in Threads :
        ( /\ Updated(t)
          /\ \/ heap[ret[t]].code # heap[existing[t]].code
             \/ heap[ret[t]].language # heap[existing[t]].language )
        => heap[ret[t]].last_updated > heap[existing[t]].last_updated

\* C8: update_room and upsert_room on an existing room leave room_id as it
\* was, leave the code as it was when code is omitted and the language as it
\* was when language is omitted; the room stored is the one returned.
C8_OnlySuppliedFieldsChange ==
    \A t \in Threads :
        Updated(t)
        => /\ heap[ret[t]].room_id = heap[existing[t]].room_id
           /\ heap[ret[t]].room_id = call[t].room_id
           /\ call[t].code = None => heap[ret[t]].code = heap[existing[t]].code
           /\ call[t].language = None
                 => heap[ret[t]].language = heap[existing[t]].language
           /\ entry[t] = seq[call[t].room_id]
                 => rooms[call[t].room_id] = ret[t]

\* C8 witness: a code-only update of a room whose language is not the default
C8_Witness ==
    \E t \in Threads :
        /\ Updated(t)
        /\ call[t].code = Some("b") /\ call[t].language = None
        /\ heap[existing[t]].code = "a"
        /\ heap[existing[t]].language = "javascript"
        /\ heap[ret[t]].code = "b"
        /\ heap[ret[t]].language = "javascript"

\* C9: update_room on an identifier that is not in the store returns None
\* (PATCH answers 404) and leaves the dict and every stored room as they were.
C9_UpdateUnknownChangesNothing ==
    [][\A t \in Threads :
          ( /\ pc[t] = "called" /\ pc'[t] # "called"
            /\ call[t].op = "update_room"
            /\ call[t].room_id \notin DOMAIN rooms )
          => /\ pc'[t] = "done"
             /\ ret'[t] = NoRef
             /\ update_room_status(ret'[t]) = 404
             /\ rooms' = rooms
             /\ \A id \in DOMAIN rooms : heap'[rooms'[id]] = heap[rooms[id]]]_vars

\* C9 witness: update_room has returned None for an identifier that is not
\* stored while another room is
C9_Witness ==
    \E t \in Threads :
        /\ pc[t] = "done" /\ call[t].op = "update_room"
        /\ call[t].code # None
        /\ existing[t] = NoRef /\ ret[t] = NoRef
        /\ call[t].room_id \notin DOMAIN rooms
        /\ rooms # <<>>

\* C10: upsert_room on an unknown identifier stores, under that identifier, a
\* room with the code supplied ("" when omitted) and the normalized language
\* (python when omitted); on a known identifier it returns and stores what
\* update_room does.
C10_UpsertCreatesOrUpdates ==
    \A t \in Threads :
        (pc[t] = "done" /\ call[t].op = "upsert_room")
        => /\ existing[t] = NoRef
                => heap[ret[t]] =
                      RoomState(call[t].room_id,
                                IF call[t].code = None THEN ""
                                ELSE call[t].code[1],
                                IF call[t].language = None THEN "python"
                                ELSE normalize_language(call[t].language),
                                ts[t])
           /\ existing[t] # NoRef
                => heap[ret[t]] =
                      set_last_updated(
                          update_set_language(
                              update_set_code(heap[existing[t]], call[t].code),
                              call[t].language),
                          ts[t])
           /\ entry[t] = seq[call[t].room_id]
                 => rooms[call[t].room_id] = ret[t]

\* C10 witness: one thread created a room by upsert_room without a code, the
\* other then changed it by upsert_room
C10_Witness ==
    \E t, u \in Threads :
        /\ pc[t] = "done" /\ call[t].op = "upsert_room" /\ existing[t] = NoRef
        /\ call[t].code = None /\ call[t].language = Some(<<"J", "S">>)
        /\ heap[ret[t]].code = "" /\ heap[ret[t]].language = "javascript"
        /\ pc[u] = "done" /\ call[u].op = "upsert_room"
        /\ existing[u] = ret[t]
        /\ call[u].code = Some("a")
        /\ rooms[call[u].room_id] = ret[u]
        /\ heap[ret[u]].code = "a" /\ heap[ret[u]].language = "javascript"

\* C11: the language of every stored room is one of python, javascript,
\* typescript, sql, java, c, cpp, and no create, update, upsert or WebSocket
\* message has failed because of the language it carried.
C11_LanguageAlwaysSupported ==
    /\ \A id \in DOMAIN rooms : heap[rooms[id]].language \in Language
    /\ \A c \in Conns : wsState[c] # "failed"

\* C12: normalize_language returns python for a missing or empty input, the
\* canonical identifier for any spelling of it that differs in case only, cpp,
\* javascript, typescript for any such spelling of "c++", "js", "ts", and
\* python for every other string.
C12_NormalizeByTable ==
    normalized # ""
    => IF lang = None THEN normalized = "python"
       ELSE IF lang[1] = <<>> THEN normalized = "python"
       ELSE LET known == {k \in DOMAIN KnownVariants :
                             lang[1] \in KnownVariants[k]}
            IN IF known = {} THEN normalized = "python"
               ELSE \A k \in known :
                       normalized = CASE k = "c++" -> "cpp"
                                      [] k = "js" -> "javascript"
                                      [] k = "ts" -> "typescript"
                                      [] OTHER -> k

\* C12 witness: "C++" has been normalized to cpp
C12_Witness ==
    /\ lang = Some(<<"C", "+", "+">>)
    /\ normalized = "cpp"

\* C13: normalize_language applied to its own result returns that result.
C13_NormalizeIdempotent ==
    renormalized # "" => renormalized = normalized

\* C13 witness: "Ts" gave typescript, and typescript gave typescript again
C13_Witness ==
    /\ lang = Some(<<"T", "s">>)
    /\ normalized = "typescript"
    /\ renormalized = "typescript"

\* C14: a caller's write to the mapping list_rooms returned, or to a room
\* value in it, leaves the dict of the store and every stored room as they
\* were; a store mutation leaves the mappings already returned, and the room
\* values in them, as they were.
C14_ListIsIndependentCopy ==
    [][ /\ (\E t \in Threads : MutateListed(t) \/ MutateMapping(t))
           => (rooms' = rooms /\ View(rooms)' = View(rooms))
        /\ (pc' # pc /\ calls' = calls)
           => \A t \in Threads :
                 (pc[t] = "done" /\ pc'[t] = "done"
                    /\ call[t].op = "list_rooms")
                 => /\ listret'[t] = listret[t]
                    /\ \A id \in DOMAIN listret[t] :
                          heap'[listret[t][id]] = heap[listret[t][id]] ]_vars

\* C15: a caller's write to a field of the room that create_room, get_room,
\* update_room or upsert_room returned leaves every stored room, which is
\* what a later get_room returns, as it was.
C15_NoMutableAlias ==
    [][(\E t \in Threads : MutateReturned(t))
          => View(rooms)' = View(rooms)]_vars

\* C16: GET /rooms/{room_id} and GET /rooms (store.get_room and
\* store.list_rooms) leave the identifiers of the store and every room's code,
\* language and last_updated as they were, and GET /rooms/{room_id} on an
\* unknown identifier answers 404 and creates nothing.
C16_ReadsChangeNothing ==
    [][(GetRoom \/ GetRooms)
          => /\ DOMAIN rooms' = DOMAIN rooms
             /\ View(rooms)' = View(rooms)
             /\ (last'.kind = "get" /\ last'.room_id \notin DOMAIN rooms)
                   => /\ last'.status = 404
                      /\ last'.room_id \notin DOMAIN rooms']_vars

\* C16 witness: GET /rooms/{room_id} answered 404 for an identifier that is
\* not stored while another room is
C16_Witness ==
    /\ last.kind = "get" /\ last.status = 404
    /\ last.room_id \notin DOMAIN rooms
    /\ rooms # <<>>

\* C17: a get_room that starts after a create_room, update_room or
\* upsert_room on its identifier has returned finds the room, in the state
\* all the mutations so far left it in; when that call is the room's latest
\* mutation, the code and the language it supplied are the ones returned.
C17_GetSeesCompletedWrites ==
    [][\A t \in Threads :
          get_room(t)
          => \A u \in Threads :
                ( /\ pc[u] = "done"
                  /\ call[u].op \in {"create_room", "update_room", "upsert_room"}
                  /\ call[u].room_id = call'[t].room_id
                  /\ entry[u] > 0 )
                => /\ ret'[t] # NoRef
                   /\ heap'[ret'[t]] = abs[call[u].room_id]
                   /\ entry[u] = seq[call[u].room_id]
                         => /\ call[u].code # None
                                 => heap'[ret'[t]].code = call[u].code[1]
                            /\ call[u].language # None
                                 => heap'[ret'[t]].language
                                       = normalize_language(call[u].language)
      ]_vars

\* C17 witness: one thread's update_room wrote code "b" as the second mutation
\* of a room, and the other thread's get_room then returned that room
C17_Witness ==
    \E t, u \in Threads :
        /\ t # u
        /\ pc[u] = "done" /\ call[u].op = "update_room"
        /\ call[u].code = Some("b")
        /\ entry[u] = 2 /\ seq[call[u].room_id] = 2
        /\ pc[t] = "done" /\ call[t].op = "get_room"
        /\ call[t].room_id = call[u].room_id
        /\ ret[t] = ret[u]
        /\ heap[ret[t]].code = "b"

\* C18: a WebSocket "get" on a connection of room r sends the stored room r
\* to that connection and to no other; a room that was not stored is first
\* stored with code "" and language python, the other rooms untouched, so r
\* is in the store afterwards.
C18_WsGetSendsOrCreates ==
    [][\A c \in Conns :
          WsGet(c)
          => /\ wsRoom[c] \in DOMAIN rooms'
             /\ outbox'[c] = Append(outbox[c], heap'[rooms'[wsRoom[c]]])
             /\ \A d \in Conns \ {c} : outbox'[d] = outbox[d]
             /\ wsRoom[c] \in DOMAIN rooms => View(rooms)' = View(rooms)
             /\ wsRoom[c] \notin DOMAIN rooms
                   => /\ heap'[rooms'[wsRoom[c]]].room_id = wsRoom[c]
                      /\ heap'[rooms'[wsRoom[c]]].code = ""
                      /\ heap'[rooms'[wsRoom[c]]].language = "python"
                      /\ \A id \in DOMAIN rooms :
                            /\ id \in DOMAIN rooms'
                            /\ heap'[rooms'[id]] = heap[rooms[id]]]_vars

\* C18 witness: two connections are open on a room that was not stored; a
\* "get" on one created it and was answered on that one only
C18_Witness ==
    \E c, d \in Conns :
        /\ c # d
        /\ wsState[c] = "open" /\ wsState[d] = "open"
        /\ wsRoom[c] = wsRoom[d]
        /\ last.kind = "ws_get" /\ last.conn = c
        /\ msgs = 1
        /\ outbox[c] = <<RoomState(wsRoom[c], "", "python", clock)>>
        /\ outbox[d] = <<>>
        /\ View(rooms) = [id \in {wsRoom[c]} |-> outbox[c][1]]

\* C19: a WebSocket message with an unknown action is answered with an error
\* payload on the sender's connection; the store is as it was and the
\* connection stays open.
C19_UnknownActionAnswered ==
    [][\A c \in Conns :
          WsUnknown(c)
          => /\ outbox'[c] = Append(outbox[c], [error |-> "Unknown action"])
             /\ \A d \in Conns \ {c} : outbox'[d] = outbox[d]
             /\ rooms' = rooms
             /\ View(rooms)' = View(rooms)
             /\ wsState'[c] = "open"]_vars

\* C19 witness: a connection was sent the error and, for a later "get", the
\* room
C19_Witness ==
    \E c \in Conns :
        /\ wsState[c] = "open"
        /\ Len(outbox[c]) = 2
        /\ outbox[c][1] = [error |-> "Unknown action"]
        /\ last.kind = "ws_get" /\ last.conn = c
        /\ outbox[c][2] = heap[rooms[wsRoom[c]]]

\* C20: the close of a WebSocket connection leaves the store as it was and
\* leaves every other connection open or closed as it was, with the payloads
\* it had been sent.
C20_DisconnectIsLocal ==
    [][\A c \in Conns :
          WsDisconnect(c)
          => /\ rooms' = rooms
             /\ View(rooms)' = View(rooms)
             /\ wsState'[c] = "closed"
             /\ \A d \in Conns \ {c} :
                   /\ wsState'[d] = wsState[d]
                   /\ wsRoom'[d] = wsRoom[d]
                   /\ outbox'[d] = outbox[d]]_vars

\* C20 witness: one connection of a room is closed, and the other connection
\* of that room has since been answered an "update"
C20_Witness ==
    \E c, d \in Conns :
        /\ wsState[c] = "closed" /\ wsState[d] = "open"
        /\ wsRoom[c] = wsRoom[d]
        /\ outbox[c] # <<>>
        /\ last.kind = "ws_update" /\ last.conn = d
        /\ outbox[d] = <<heap[rooms[wsRoom[d]]]>>

\* C21: every message read on a WebSocket connection is answered, in the
\* step that handles it and before the next one is read, with exactly one
\* payload appended to what that connection was sent; the other connections
\* are as they were.
C21_OneResponsePerMessage ==
    [][\A c \in Conns :
          (WsGet(c) \/ WsUpdate(c) \/ WsUnknown(c))
          => /\ Len(outbox'[c]) = Len(outbox[c]) + 1
             /\ SubSeq(outbox'[c], 1, Len(outbox[c])) = outbox[c]
             /\ wsState'[c] = "open"
             /\ \A d \in Conns \ {c} :
                   /\ outbox'[d] = outbox[d]
                   /\ wsState'[d] = wsState[d]]_vars

\* C22: the room stored under key k has room_id k, and an identifier that is
\* in the store is in the store after every step.
C22_IdentifiersStay ==
    [][ /\ \A k \in DOMAIN rooms' : heap'[rooms'[k]].room_id = k
        /\ DOMAIN rooms \subseteq DOMAIN rooms' ]_vars

\* C22 witness: both identifiers are stored, one of them by create_room, and
\* a room has been replaced by update_room
C22_Witness ==
    /\ DOMAIN rooms = Ids
    /\ \A k \in Ids : heap[rooms[k]].room_id = k
    /\ \E t, u \in Threads :
          /\ Updated(t) /\ call[t].op = "update_room"
          /\ rooms[call[t].room_id] = ret[t]
          /\ pc[u] = "done" /\ call[u].op = "create_room"

\* C23: create_room returns the room it stores under its identifier of 8
\* characters; without code and language the room has code "" and language
\* python, otherwise the code given and the normalized language.
C23_CreateStoresDefaultsOrArguments ==
    [][\A t \in Threads :
          CreateCommit(t)
          => /\ rooms'[call[t].room_id] = ret'[t]
             /\ heap'[ret'[t]].room_id = call[t].room_id
             /\ Len(room_id_chars[call[t].room_id]) = 8
             /\ heap'[ret'[t]].code = call[t].code[1]
             /\ call[t].language = None => heap'[ret'[t]].language = "python"
             /\ call[t].language = Some(<<"J", "S">>)
                   => heap'[ret'[t]].language = "javascript"
             /\ (call[t].code = Some("") /\ call[t].language = None)
                   => /\ heap'[ret'[t]].code = ""
                      /\ heap'[ret'[t]].language = "python"]_vars

\* C23 witness: one create_room without arguments and one with code "a" and
\* language "JS" have returned
C23_Witness ==
    \E t, u \in Threads :
        /\ pc[t] = "done" /\ call[t].op = "create_room"
        /\ call[t].code = Some("") /\ call[t].language = None
        /\ heap[ret[t]].code = "" /\ heap[ret[t]].language = "python"
        /\ pc[u] = "done" /\ call[u].op = "create_room"
        /\ call[u].code = Some("a") /\ call[u].language = Some(<<"J", "S">>)
        /\ heap[ret[u]].code = "a" /\ heap[ret[u]].language = "javascript"

\* C27: a WebSocket "get" leaves the code, the language and the last_updated
\* of every room that is in the store as they were.
C27_WsGetKeepsExistingRooms ==
    [][\A c \in Conns :
          WsGet(c)
          => \A id \in DOMAIN rooms :
                /\ id \in DOMAIN rooms'
                /\ heap'[rooms'[id]] = heap[rooms[id]]]_vars

\* C27 witness: a room was written by an "update" on one connection at time 1
\* and a "get" on the other connection of that room, handled at a later time,
\* was sent it unchanged
C27_Witness ==
    \E c, d \in Conns :
        /\ c # d /\ wsRoom[c] = wsRoom[d]
        /\ last.kind = "ws_get" /\ last.conn = c
        /\ wsRoom[c] \in DOMAIN rooms
        /\ Len(outbox[d]) = 1 /\ Len(outbox[c]) = 1
        /\ "code" \in DOMAIN outbox[d][1]
        /\ outbox[d][1].code = "a"
        /\ outbox[c][1] = outbox[d][1]
        /\ heap[rooms[wsRoom[c]]] = outbox[d][1]
        /\ heap[rooms[wsRoom[c]]].last_updated < clock

\* C28: update_room or upsert_room on an existing room with neither code nor
\* language leaves its code and language as they were and sets last_updated
\* to the time the call read, which is later than the last_updated before.
C28_EmptyUpdateAdvancesVersion ==
    \A t \in Threads :
        (Updated(t) /\ call[t].code = None /\ call[t].language = None)
        => /\ heap[ret[t]].code = heap[existing[t]].code
           /\ heap[ret[t]].language = heap[existing[t]].language
           /\ heap[ret[t]].last_updated = ts[t]
           /\ heap[ret[t]].last_updated > heap[existing[t]].last_updated

\* C29: PATCH and the WebSocket "get" and "update" (update_room, upsert_room)
\* addressed to one identifier leave every room stored under another
\* identifier as it was.
C29_OtherRoomsUntouched ==
    [][last'.kind \in {"patch", "ws_get", "ws_update"}
          => \A id \in DOMAIN rooms \ {last'.room_id} :
                /\ id \in DOMAIN rooms'
                /\ heap'[rooms'[id]] = heap[rooms[id]]]_vars

\* C29 witness: two rooms are stored, and a PATCH has changed the code of one
\* of them while the other still has the code it was created with
C29_Witness ==
    /\ DOMAIN rooms = Ids
    /\ last.kind = "patch" /\ last.status = 200
    /\ heap[rooms[last.room_id]].code = "b"
    /\ \E id \in Ids \ {last.room_id} : heap[rooms[id]].code = "a"

\* the session shows the room of the URL as the backend has it
Converged ==
    /\ RoomParam \in DOMAIN backend_rooms
    /\ "code_editor" \in DOMAIN session_state
    /\ session_state["code_editor"] = backend_rooms[RoomParam].code
    /\ session_state["code_version"] = backend_rooms[RoomParam].last_updated

\* C24: a sync that begins with last_change_origin "local" leaves code_editor
\* and code_version as they were, whatever room it fetched.
C24_LocalOriginKeepsEditor ==
    [][(did' = "sync" /\ Get(session_state, "last_change_origin", "") = "local")
          => /\ session_state'["code_editor"] = session_state["code_editor"]
             /\ session_state'["code_version"] = session_state["code_version"]
      ]_vars

\* C24 witness: a sync that began with origin "local" fetched a room with a
\* newer last_updated and another code, and the editor and the version of
\* the session are the ones from before
C24_Witness ==
    /\ did = "sync"
    /\ Get(prior, "last_change_origin", "") = "local"
    /\ page_room[1].last_updated > prior["code_version"]
    /\ page_room[1].code # prior["code_editor"]
    /\ session_state["code_editor"] = prior["code_editor"]
    /\ session_state["code_version"] = prior["code_version"]

\* C25: in a sync of an initialized session the editor content changes only
\* to the code of a fetched room whose last_updated is strictly greater than
\* code_version, a room that is not newer leaves the session as it was, and
\* code_version does not decrease.
C25_OnlyNewerSnapshotOverwrites ==
    [][(did' = "sync" /\ "code_editor" \in DOMAIN session_state)
          => /\ session_state'["code_editor"] # session_state["code_editor"]
                   => /\ page_room'[1].last_updated
                            > session_state["code_version"]
                      /\ session_state'["code_editor"] = page_room'[1].code
             /\ page_room'[1].last_updated <= session_state["code_version"]
                   => session_state' = session_state
             /\ session_state'["code_version"]
                   >= session_state["code_version"]]_vars

\* C25 witness: a sync fetched the room of the URL with a last_updated equal
\* to code_version and another code than the editor, and the session is as
\* it was
C25_Witness ==
    /\ did = "sync"
    /\ "code_editor" \in DOMAIN prior
    /\ RoomParam \in DOMAIN backend_rooms
    /\ page_room[1] = RoomJson(RoomParam)
    /\ page_room[1].last_updated = prior["code_version"]
    /\ page_room[1].code # prior["code_editor"]
    /\ session_state = prior

C30_FrontStoreKeepsLastSupplied ==
    [][ /\ front_did'.op = "update"
              => /\ front_did'.room_id \in DOMAIN front_rooms'
                 /\ front_ret' = Some(front_rooms'[front_did'.room_id])
                 /\ front_did'.room_id \in DOMAIN front_rooms
                       => front_rooms'[front_did'.room_id].last_updated
                             >= front_rooms[front_did'.room_id].last_updated
        /\ front_did'.op = "get_or_create"
              => LET id == front_did'.room_id
                     r == front_ret'[1]
                 IN /\ r = front_rooms'[id]
                    /\ supplied'[id].code # None
                          => r.code = supplied'[id].code[1]
                    /\ supplied'[id].language # None
                          => r.language = supplied'[id].language[1] ]_vars

\* C30 witness: get_or_create returns code "a" and language "JS" for a room
\* that updates have supplied both to
C30_Witness ==
    /\ front_did.op = "get_or_create"
    /\ supplied[front_did.room_id] =
          [code |-> Some("a"), language |-> Some("JS")]
    /\ front_ret[1].code = "a"
    /\ front_ret[1].language = "JS"
    /\ front_ret[1].last_updated = MaxWall

\* C31: the frontend's normalize_language and the backend's return the same
\* language for every input.
C31_NormalizersAgree ==
    (normalized # "" /\ front_normalized # "")
    => front_normalized = normalized

====
